---------------------------- MODULE Spec2Model ----------------------------
(***************************************************************************)
(* A model of the users service of src/main.py: the handle derivation      *)
(* (slugify, generate_unique_username), the create / delete handlers run   *)
(* by concurrent workers against one shared table with unique indexes on   *)
(* email and username, and the predicate built by search_users.            *)
(*                                                                         *)
(* A string is a sequence of characters; a character is a one-token        *)
(* string ("a", "A", " ", "?", and the named tokens "TAB", "E_ACUTE",      *)
(* "e_acute", "KELVIN" for characters outside ASCII).                      *)
(***************************************************************************)
EXTENDS Integers, Sequences, FiniteSets, TLC

VARIABLES
    store,      \* the users table: the rows in rowid (insertion) order
    pc,         \* per worker: where its current request stands
    req,        \* per worker: the request it last received
    loc,        \* per worker: the local variables of its handler
    outcome,    \* per worker: how its last request ended
    ret,        \* per worker: the body of its last response
    dirty,      \* per worker: another worker changed the table during its request in progress
    nRequests,  \* number of requests received so far
    fn          \* the input and the result of a function evaluated on its own

vars == <<store, pc, req, loc, outcome, ret, dirty, nRequests, fn>>

---------------------------------------------------------------------------
(* Characters and the str methods the handlers use.                        *)

UpperLetters == <<"A","B","C","D","E","F","G","H","I","J","K","L","M",
                  "N","O","P","Q","R","S","T","U","V","W","X","Y","Z">>

LowerLetters == <<"a","b","c","d","e","f","g","h","i","j","k","l","m",
                  "n","o","p","q","r","s","t","u","v","w","x","y","z">>

DigitChars == <<"0","1","2","3","4","5","6","7","8","9">>

Range(s) == {s[i] : i \in 1..Len(s)}

\* str.strip() removes these from both ends.
Whitespace == {" ", "TAB"}

\* str.lower() on one character: ASCII upper case, and the two characters
\* outside ASCII of the model (E_ACUTE -> e_acute; KELVIN SIGN -> ASCII k).
LowerChar(c) ==
    IF \E i \in 1..Len(UpperLetters) : UpperLetters[i] = c
    THEN LowerLetters[CHOOSE i \in 1..Len(UpperLetters) : UpperLetters[i] = c]
    ELSE IF c = "E_ACUTE" THEN "e_acute"
    ELSE IF c = "KELVIN" THEN "k"
    ELSE c

lower(s) == [i \in 1..Len(s) |-> LowerChar(s[i])]

RECURSIVE lstrip(_)
lstrip(s) ==
    IF s # <<>> /\ Head(s) \in Whitespace THEN lstrip(Tail(s)) ELSE s

RECURSIVE rstrip(_)
rstrip(s) ==
    IF s # <<>> /\ s[Len(s)] \in Whitespace
    THEN rstrip(SubSeq(s, 1, Len(s) - 1))
    ELSE s

strip(s) == rstrip(lstrip(s))

\* re.sub(r"[^a-z0-9]+", "", s): only the characters of [a-z0-9] stay.
RECURSIVE re_sub_non_alnum(_)
re_sub_non_alnum(s) ==
    IF s = <<>> THEN <<>>
    ELSE IF Head(s) \in Range(LowerLetters) \cup Range(DigitChars)
         THEN <<Head(s)>> \o re_sub_non_alnum(Tail(s))
         ELSE re_sub_non_alnum(Tail(s))

\* str(n) of a natural number, as the f-string formats the suffix.
RECURSIVE str(_)
str(n) ==
    IF n < 10 THEN <<DigitChars[n + 1]>>
    ELSE str(n \div 10) \o <<DigitChars[(n % 10) + 1]>>

---------------------------------------------------------------------------
(* Username generation.                                                    *)

\* slugify without the re.sub of line 65.
slugify_no_filter(s) == lower(strip(s))

\* slugify, lines 62-66.
slugify(s) == re_sub_non_alnum(lower(strip(s)))

FallbackBase == <<"u","s","e","r">>

\* The base taken from all of first_name instead of first_name[:1].
derive_base_whole_first_name(first_name, last_name) ==
    LET base == slugify(first_name \o last_name)
    IN  IF base = <<>> THEN FallbackBase ELSE base

\* generate_unique_username, lines 69-71: the base of the candidates.
derive_base(first_name, last_name) ==
    LET base == slugify(SubSeq(first_name, 1, 1) \o last_name)
    IN  IF base = <<>> THEN FallbackBase ELSE base

\* generate_unique_username, line 74.
initial_suffix == 2

\* The candidate formatted from the suffix after the increment.
next_candidate_skips_one(base, suffix) == base \o str(suffix + 1)

\* generate_unique_username, line 80.
next_candidate(base, suffix) == base \o str(suffix)

---------------------------------------------------------------------------
(* The users table and the requests of the model.                          *)

Procs == {"w1", "w2"}

\* The number of requests the workers receive in one behaviour.
MaxRequests == 4

Ann == <<"A","n","n">>
Amy == <<"A","m","y">>
Lee == <<"L","e","e">>
BirthDate == "2000-01-01"

\* The bodies of POST /users the workers receive (UserCreate).
Payloads ==
    { [first_name |-> Ann, last_name |-> Lee, birth_date |-> BirthDate,
       email |-> <<"a","n","n","@","x">>, phone |-> <<"1","2","3"," ">>],
      [first_name |-> Amy, last_name |-> Lee, birth_date |-> BirthDate,
       email |-> <<"a","m","y","@","x">>, phone |-> <<"1","2","3">>],
      [first_name |-> <<"A">>, last_name |-> Lee \o <<"2">>, birth_date |-> BirthDate,
       email |-> <<"a","@","x">>, phone |-> <<"1","2","3">>],
      [first_name |-> <<"?">>, last_name |-> <<"E_ACUTE"," ">>, birth_date |-> BirthDate,
       email |-> <<" ","A","N","N","@","X"," ">>, phone |-> <<"1","2","3">>],
      [first_name |-> <<" ","A","l">>, last_name |-> Lee, birth_date |-> BirthDate,
       email |-> <<"a","l","@","x">>, phone |-> <<"1","2","3">>] }

\* The {username} path parameters the workers receive.
HandleInputs == { <<"a","l","e","e">>, <<"a","l","e","e","2">>, <<"z">> }

NoReq == [kind |-> "none"]
NoLoc == [base |-> <<>>, candidate |-> <<>>, suffix |-> 0, username |-> <<>>, id |-> 0]
NoRet == [kind |-> "none"]
NoFn  == [op |-> "none"]

\* HTTPException(status_code=409, detail="Email gia esistente"), line 108.
Conflict409 == [kind |-> "error", status |-> "409", detail |-> "Email gia esistente"]

\* HTTPException(status_code=404, detail="Utente non trovato"), lines 162, 175.
NotFound404 == [kind |-> "error", status |-> "404", detail |-> "Utente non trovato"]

Rows(rows) == Range(rows)

\* The row built with the email as submitted (no lower().strip()).
new_user_raw_email(payload, username) ==
    [ first_name |-> strip(payload.first_name),
      last_name  |-> strip(payload.last_name),
      birth_date |-> payload.birth_date,
      email      |-> payload.email,
      phone      |-> strip(payload.phone),
      username   |-> username ]

\* The class User, lines 93-100: the row create_user builds from the payload.
new_user(payload, username) ==
    [ first_name |-> strip(payload.first_name),
      last_name  |-> strip(payload.last_name),
      birth_date |-> payload.birth_date,
      email      |-> strip(lower(payload.email)),
      phone      |-> strip(payload.phone),
      username   |-> username ]

\* id = Column(Integer, primary_key=True) on the default SQLite store: the
\* rowid of a new row is one more than the largest rowid in the table.
next_id(rows) ==
    IF rows = <<>> THEN 1
    ELSE 1 + CHOOSE m \in {r.id : r \in Rows(rows)} :
                 \A r \in Rows(rows) : r.id <= m

with_id(user, id) ==
    [ id |-> id, first_name |-> user.first_name, last_name |-> user.last_name,
      birth_date |-> user.birth_date, email |-> user.email,
      phone |-> user.phone, username |-> user.username ]

\* UserOut: the response body leaves the id out.
UserOut(row) ==
    [ kind |-> "user",
      first_name |-> row.first_name, last_name |-> row.last_name,
      birth_date |-> row.birth_date, email |-> row.email,
      phone |-> row.phone, username |-> row.username ]

\* The table with the unique index on email alone.
integrity_error_email_only(rows, user) ==
    \E r \in Rows(rows) : r.email = user.email

\* The table with the unique index on username alone.
integrity_error_username_only(rows, user) ==
    \E r \in Rows(rows) : r.username = user.username

\* unique=True on email and on username: the INSERT raises IntegrityError.
integrity_error(rows, user) ==
    \E r \in Rows(rows) : r.email = user.email \/ r.username = user.username

\* select(User).where(User.username == h).scalar_one_or_none()
select_by_username(rows, h) == {r \in Rows(rows) : r.username = h}

\* Another worker's commit changed the table during q's request.
Touch(p, rows) ==
    [q \in Procs |-> IF q # p /\ pc[q] # "idle" /\ rows # store
                     THEN TRUE ELSE dirty[q]]

Init ==
    /\ store = <<>>
    /\ pc = [p \in Procs |-> "idle"]
    /\ req = [p \in Procs |-> NoReq]
    /\ loc = [p \in Procs |-> NoLoc]
    /\ outcome = [p \in Procs |-> "none"]
    /\ ret = [p \in Procs |-> NoRet]
    /\ dirty = [p \in Procs |-> FALSE]
    /\ nRequests = 0
    /\ fn = NoFn

---------------------------------------------------------------------------
(* POST /users.                                                            *)

\* Variant of the entry that remembers the handle this worker was given
\* last: a request with the same base starts its probes after it.
create_user_begin_cached(p, payload) ==
    /\ pc[p] = "idle"
    /\ nRequests < MaxRequests
    /\ nRequests' = nRequests + 1
    /\ req' = [req EXCEPT ![p] = [kind |-> "create", payload |-> payload]]
    /\ LET base == derive_base(payload.first_name, payload.last_name)
           cached == outcome[p] = "Created" /\ ret[p].username = base
       IN  loc' = [loc EXCEPT ![p] =
                     [base |-> base,
                      candidate |-> IF cached THEN next_candidate(base, initial_suffix)
                                    ELSE base,
                      suffix |-> IF cached THEN initial_suffix + 1 ELSE initial_suffix,
                      username |-> <<>>, id |-> 0]]
    /\ pc' = [pc EXCEPT ![p] = "probe"]
    /\ outcome' = [outcome EXCEPT ![p] = "none"]
    /\ ret' = [ret EXCEPT ![p] = NoRet]
    /\ dirty' = [dirty EXCEPT ![p] = FALSE]
    /\ UNCHANGED <<store, fn>>

\* create_user receives a payload and enters generate_unique_username
\* (lines 90-92, 69-74).
create_user_begin(p, payload) ==
    /\ pc[p] = "idle"
    /\ nRequests < MaxRequests
    /\ nRequests' = nRequests + 1
    /\ req' = [req EXCEPT ![p] = [kind |-> "create", payload |-> payload]]
    /\ LET base == derive_base(payload.first_name, payload.last_name)
       IN  loc' = [loc EXCEPT ![p] = [base |-> base, candidate |-> base,
                                      suffix |-> initial_suffix,
                                      username |-> <<>>, id |-> 0]]
    /\ pc' = [pc EXCEPT ![p] = "probe"]
    /\ outcome' = [outcome EXCEPT ![p] = "none"]
    /\ ret' = [ret EXCEPT ![p] = NoRet]
    /\ dirty' = [dirty EXCEPT ![p] = FALSE]
    /\ UNCHANGED <<store, fn>>

\* Variant of the loop turn that gives up after two taken candidates: the
\* request fails instead of probing a third one.
generate_unique_username_probe_capped(p) ==
    /\ pc[p] = "probe"
    /\ LET exists == select_by_username(store, loc[p].candidate) # {}
       IN  IF ~exists
           THEN /\ loc' = [loc EXCEPT ![p].username = loc[p].candidate]
                /\ pc' = [pc EXCEPT ![p] = "insert"]
                /\ outcome' = outcome
           ELSE IF loc[p].suffix > initial_suffix
           THEN /\ loc' = [loc EXCEPT ![p] = NoLoc]
                /\ pc' = [pc EXCEPT ![p] = "idle"]
                /\ outcome' = [outcome EXCEPT ![p] = "Error"]
           ELSE /\ loc' = [loc EXCEPT
                             ![p].candidate = next_candidate(loc[p].base, loc[p].suffix),
                             ![p].suffix = loc[p].suffix + 1]
                /\ pc' = pc
                /\ outcome' = outcome
    /\ UNCHANGED <<store, req, ret, dirty, nRequests, fn>>

\* One turn of the while loop of generate_unique_username (lines 76-81).
generate_unique_username_probe(p) ==
    /\ pc[p] = "probe"
    /\ LET exists == select_by_username(store, loc[p].candidate) # {}
       IN  IF ~exists
           THEN /\ loc' = [loc EXCEPT ![p].username = loc[p].candidate]
                /\ pc' = [pc EXCEPT ![p] = "insert"]
           ELSE /\ loc' = [loc EXCEPT
                             ![p].candidate = next_candidate(loc[p].base, loc[p].suffix),
                             ![p].suffix = loc[p].suffix + 1]
                /\ pc' = pc
    /\ UNCHANGED <<store, req, outcome, ret, dirty, nRequests, fn>>

\* Variant of the commit that, instead of refusing a duplicate, overwrites
\* the fields of the rows in the way with those of the request (an upsert).
create_user_commit_upsert(p) ==
    /\ pc[p] = "insert"
    /\ LET user == new_user(req[p].payload, loc[p].username)
           id   == next_id(store)
       IN  IF integrity_error(store, user)
           THEN /\ store' = [i \in 1..Len(store) |->
                               IF integrity_error(<<store[i]>>, user)
                               THEN with_id([user EXCEPT !.username = store[i].username],
                                            store[i].id)
                               ELSE store[i]]
                /\ outcome' = [outcome EXCEPT ![p] = "Conflict"]
                /\ ret' = [ret EXCEPT ![p] = Conflict409]
                /\ pc' = [pc EXCEPT ![p] = "idle"]
                /\ loc' = [loc EXCEPT ![p] = NoLoc]
                /\ dirty' = [dirty EXCEPT ![p] = FALSE]
           ELSE /\ store' = Append(store, with_id(user, id))
                /\ loc' = [loc EXCEPT ![p].id = id]
                /\ pc' = [pc EXCEPT ![p] = "refresh"]
                /\ outcome' = outcome
                /\ ret' = ret
                /\ dirty' = Touch(p, Append(store, with_id(user, id)))
    /\ UNCHANGED <<req, nRequests, fn>>

\* Variant of the commit whose 409 names the violated index: a taken
\* username is reported with a detail of its own.
create_user_commit_distinct_details(p) ==
    /\ pc[p] = "insert"
    /\ LET user == new_user(req[p].payload, loc[p].username)
           id   == next_id(store)
       IN  IF integrity_error(store, user)
           THEN /\ store' = store
                /\ outcome' = [outcome EXCEPT ![p] = "Conflict"]
                /\ ret' = [ret EXCEPT ![p] =
                             IF integrity_error_email_only(store, user)
                             THEN Conflict409
                             ELSE [Conflict409 EXCEPT !.detail = "Username gia esistente"]]
                /\ pc' = [pc EXCEPT ![p] = "idle"]
                /\ loc' = [loc EXCEPT ![p] = NoLoc]
                /\ dirty' = [dirty EXCEPT ![p] = FALSE]
           ELSE /\ store' = Append(store, with_id(user, id))
                /\ loc' = [loc EXCEPT ![p].id = id]
                /\ pc' = [pc EXCEPT ![p] = "refresh"]
                /\ outcome' = outcome
                /\ ret' = ret
                /\ dirty' = Touch(p, Append(store, with_id(user, id)))
    /\ UNCHANGED <<req, nRequests, fn>>

\* db.add(user); db.commit(), and the except IntegrityError branch
\* (lines 93-102, 105-108).
create_user_commit(p) ==
    /\ pc[p] = "insert"
    /\ LET user == new_user(req[p].payload, loc[p].username)
           id   == next_id(store)
       IN  IF integrity_error(store, user)
           THEN /\ store' = store
                /\ outcome' = [outcome EXCEPT ![p] = "Conflict"]
                /\ ret' = [ret EXCEPT ![p] = Conflict409]
                /\ pc' = [pc EXCEPT ![p] = "idle"]
                /\ loc' = [loc EXCEPT ![p] = NoLoc]
                /\ dirty' = [dirty EXCEPT ![p] = FALSE]
           ELSE /\ store' = Append(store, with_id(user, id))
                /\ loc' = [loc EXCEPT ![p].id = id]
                /\ pc' = [pc EXCEPT ![p] = "refresh"]
                /\ outcome' = outcome
                /\ ret' = ret
                /\ dirty' = Touch(p, Append(store, with_id(user, id)))
    /\ UNCHANGED <<req, nRequests, fn>>

\* db.refresh(user); return user (lines 103-104): the row is read back by
\* its primary key; no such row raises an error that is not caught (500).
create_user_refresh(p) ==
    /\ pc[p] = "refresh"
    /\ LET found == {r \in Rows(store) : r.id = loc[p].id}
       IN  IF found # {}
           THEN /\ ret' = [ret EXCEPT ![p] = UserOut(CHOOSE r \in found : TRUE)]
                /\ outcome' = [outcome EXCEPT ![p] = "Created"]
           ELSE /\ ret' = ret
                /\ outcome' = [outcome EXCEPT ![p] = "Error"]
    /\ pc' = [pc EXCEPT ![p] = "idle"]
    /\ loc' = [loc EXCEPT ![p] = NoLoc]
    /\ dirty' = [dirty EXCEPT ![p] = FALSE]
    /\ UNCHANGED <<store, req, nRequests, fn>>

---------------------------------------------------------------------------
(* DELETE /users/{username}.                                               *)

\* delete_user without the "if not user" test of lines 161-162.
delete_user_select_never_404(p, h) ==
    /\ pc[p] = "idle"
    /\ nRequests < MaxRequests
    /\ nRequests' = nRequests + 1
    /\ req' = [req EXCEPT ![p] = [kind |-> "delete", username |-> h]]
    /\ ret' = [ret EXCEPT ![p] = NoRet]
    /\ dirty' = [dirty EXCEPT ![p] = FALSE]
    /\ loc' = [loc EXCEPT ![p] = [NoLoc EXCEPT !.id = 0]]
    /\ pc' = [pc EXCEPT ![p] = "delete"]
    /\ outcome' = [outcome EXCEPT ![p] = "none"]
    /\ UNCHANGED <<store, fn>>

\* delete_user up to the 404 (lines 158-162).
delete_user_select(p, h) ==
    /\ pc[p] = "idle"
    /\ nRequests < MaxRequests
    /\ nRequests' = nRequests + 1
    /\ req' = [req EXCEPT ![p] = [kind |-> "delete", username |-> h]]
    /\ dirty' = [dirty EXCEPT ![p] = FALSE]
    /\ LET user == select_by_username(store, h)
       IN  IF user = {}
           THEN /\ outcome' = [outcome EXCEPT ![p] = "NotFound"]
                /\ ret' = [ret EXCEPT ![p] = NotFound404]
                /\ pc' = pc
                /\ loc' = loc
           ELSE /\ loc' = [loc EXCEPT ![p] =
                             [NoLoc EXCEPT !.id = (CHOOSE r \in user : TRUE).id]]
                /\ pc' = [pc EXCEPT ![p] = "delete"]
                /\ outcome' = [outcome EXCEPT ![p] = "none"]
                /\ ret' = [ret EXCEPT ![p] = NoRet]
    /\ UNCHANGED <<store, fn>>

\* Variant of the delete that keeps the row (a soft delete).
delete_user_commit_soft(p) ==
    /\ pc[p] = "delete"
    /\ store' = store
    /\ dirty' = [dirty EXCEPT ![p] = FALSE]
    /\ outcome' = [outcome EXCEPT ![p] = "Deleted"]
    /\ pc' = [pc EXCEPT ![p] = "idle"]
    /\ loc' = [loc EXCEPT ![p] = NoLoc]
    /\ UNCHANGED <<req, ret, nRequests, fn>>

\* db.delete(user); db.commit() (lines 163-165): DELETE ... WHERE id = ?
delete_user_commit(p) ==
    /\ pc[p] = "delete"
    /\ LET rows == SelectSeq(store, LAMBDA r : r.id # loc[p].id)
       IN  /\ store' = rows
           /\ dirty' = [Touch(p, rows) EXCEPT ![p] = FALSE]
    /\ outcome' = [outcome EXCEPT ![p] = "Deleted"]
    /\ pc' = [pc EXCEPT ![p] = "idle"]
    /\ loc' = [loc EXCEPT ![p] = NoLoc]
    /\ UNCHANGED <<req, ret, nRequests, fn>>

---------------------------------------------------------------------------
(* GET /users/{username}.                                                  *)

\* get_user (lines 170-178): one select, the row or the 404.
get_user(p, h) ==
    /\ pc[p] = "idle"
    /\ nRequests < MaxRequests
    /\ nRequests' = nRequests + 1
    /\ req' = [req EXCEPT ![p] = [kind |-> "get", username |-> h]]
    /\ LET user == select_by_username(store, h)
       IN  IF user = {}
           THEN /\ outcome' = [outcome EXCEPT ![p] = "NotFound"]
                /\ ret' = [ret EXCEPT ![p] = NotFound404]
           ELSE /\ outcome' = [outcome EXCEPT ![p] = "Found"]
                /\ ret' = [ret EXCEPT ![p] = UserOut(CHOOSE r \in user : TRUE)]
    /\ UNCHANGED <<store, pc, loc, dirty, fn>>

Next ==
    \E p \in Procs :
        \/ \E payload \in Payloads : create_user_begin(p, payload)
        \/ generate_unique_username_probe(p)
        \/ create_user_commit(p)
        \/ create_user_refresh(p)
        \/ \E h \in HandleInputs : delete_user_select(p, h)
        \/ delete_user_commit(p)
        \/ \E h \in HandleInputs : get_user(p, h)

Spec == Init /\ [][Next]_vars

---------------------------------------------------------------------------
(* The derivation of the base as a function of the two names alone.        *)

MaxNameLen == 2

NameChars == {"a", "L", "2", " ", "?", "E_ACUTE", "KELVIN"}

\* UserCreate: first_name and last_name hold at least one character.
NameInputs == UNION {[1..n -> NameChars] : n \in 1..MaxNameLen}

InitDerive ==
    /\ store = <<>>
    /\ pc = [p \in Procs |-> "idle"]
    /\ req = [p \in Procs |-> NoReq]
    /\ loc = [p \in Procs |-> NoLoc]
    /\ outcome = [p \in Procs |-> "none"]
    /\ ret = [p \in Procs |-> NoRet]
    /\ dirty = [p \in Procs |-> FALSE]
    /\ nRequests = 0
    /\ \E f \in NameInputs, l \in NameInputs :
          fn = [op |-> "derive", first_name |-> f, last_name |-> l,
                done |-> FALSE, base |-> <<>>]

\* Lines 69-71 of generate_unique_username applied to the input.
generate_unique_username_base ==
    /\ fn.op = "derive"
    /\ ~fn.done
    /\ fn' = [fn EXCEPT !.done = TRUE,
                        !.base = derive_base(fn.first_name, fn.last_name)]
    /\ UNCHANGED <<store, pc, req, loc, outcome, ret, dirty, nRequests>>

NextDerive == generate_unique_username_base

SpecDerive == InitDerive /\ [][NextDerive]_vars

---------------------------------------------------------------------------
(* GET /users: the WHERE clause search_users builds.                       *)

\* The SQL function lower() on the characters of the model (ASCII).
sql_lower(s) == lower(s)

\* LIKE: % stands for any run of characters, _ for any one character.
RECURSIVE like(_, _)
like(s, pattern) ==
    IF pattern = <<>> THEN s = <<>>
    ELSE IF Head(pattern) = "%"
         THEN like(s, Tail(pattern)) \/ (s # <<>> /\ like(Tail(s), pattern))
         ELSE /\ s # <<>>
              /\ Head(pattern) = "_" \/ Head(pattern) = Head(s)
              /\ like(Tail(s), Tail(pattern))

\* column.ilike(pattern): lower(column) LIKE lower(pattern)
ilike(column, pattern) == like(sql_lower(column), sql_lower(pattern))

None == [present |-> FALSE, text |-> <<>>]
Some(text) == [present |-> TRUE, text |-> text]

\* "if q:" -- None and the empty string are both skipped.
truthy(o) == o.present /\ o.text # <<>>

contains_pattern(text) == <<"%">> \o text \o <<"%">>

\* Lines 125-148: the conjunction of the where() calls.
search_users_where(user, f) ==
    /\ truthy(f.q) =>
          LET pattern == contains_pattern(strip(f.q.text))
          IN  \/ ilike(user.first_name, pattern)
              \/ ilike(user.last_name, pattern)
              \/ ilike(user.email, pattern)
              \/ ilike(user.phone, pattern)
              \/ ilike(user.username, pattern)
    /\ truthy(f.first_name) =>
          ilike(user.first_name, contains_pattern(strip(f.first_name.text)))
    /\ truthy(f.last_name) =>
          ilike(user.last_name, contains_pattern(strip(f.last_name.text)))
    /\ truthy(f.email) =>
          ilike(user.email, contains_pattern(lower(strip(f.email.text))))
    /\ truthy(f.phone) =>
          ilike(user.phone, contains_pattern(strip(f.phone.text)))
    /\ truthy(f.username) =>
          ilike(user.username, contains_pattern(lower(strip(f.username.text))))

\* The rows the predicate is applied to.
SearchRows ==
    { with_id(new_user(payload, derive_base(payload.first_name, payload.last_name)), 1) :
        payload \in Payloads }

\* The texts of the query parameters.
SearchTexts == { <<"l","e">>, <<" ","L","E","E"," ">>, <<"a","_","@">> }

SearchParams == {None} \cup {Some(t) : t \in SearchTexts}

InitSearch ==
    /\ store = <<>>
    /\ pc = [p \in Procs |-> "idle"]
    /\ req = [p \in Procs |-> NoReq]
    /\ loc = [p \in Procs |-> NoLoc]
    /\ outcome = [p \in Procs |-> "none"]
    /\ ret = [p \in Procs |-> NoRet]
    /\ dirty = [p \in Procs |-> FALSE]
    /\ nRequests = 0
    /\ \E user \in SearchRows :
       \E q \in SearchParams, first_name \in SearchParams, last_name \in SearchParams,
          email \in SearchParams, phone \in SearchParams, username \in SearchParams :
          fn = [op |-> "search", user |-> user,
                filters |-> [q |-> q, first_name |-> first_name,
                             last_name |-> last_name, email |-> email,
                             phone |-> phone, username |-> username],
                done |-> FALSE, matched |-> FALSE]

\* The statement of search_users evaluated on one row.
search_users_match ==
    /\ fn.op = "search"
    /\ ~fn.done
    /\ fn' = [fn EXCEPT !.done = TRUE,
                        !.matched = search_users_where(fn.user, fn.filters)]
    /\ UNCHANGED <<store, pc, req, loc, outcome, ret, dirty, nRequests>>

NextSearch == search_users_match

SpecSearch == InitSearch /\ [][NextSearch]_vars

---------------------------------------------------------------------------
(* GET /users: the statement of search_users run on a table.               *)

MaxRows == 3

MaxOffset == 3

\* generate_unique_username run to its return on a table no one changes.
RECURSIVE first_free_candidate(_, _, _, _)
first_free_candidate(rows, base, candidate, suffix) ==
    IF select_by_username(rows, candidate) = {}
    THEN candidate
    ELSE first_free_candidate(rows, base, next_candidate(base, suffix), suffix + 1)

\* The table after create_user has run on each payload in turn (a payload
\* the unique indexes reject adds nothing).
RECURSIVE table_of(_)
table_of(payloads) ==
    IF payloads = <<>> THEN <<>>
    ELSE LET rows == table_of(SubSeq(payloads, 1, Len(payloads) - 1))
             payload == payloads[Len(payloads)]
             base == derive_base(payload.first_name, payload.last_name)
             user == new_user(payload,
                              first_free_candidate(rows, base, base, initial_suffix))
         IN  IF integrity_error(rows, user) THEN rows
             ELSE Append(rows, with_id(user, next_id(rows)))

PageTables ==
    { table_of(payloads) :
        payloads \in UNION {[1..n -> Payloads] : n \in 0..MaxRows} }

NoFilters == [q |-> None, first_name |-> None, last_name |-> None,
              email |-> None, phone |-> None, username |-> None]

PageFilters ==
    { NoFilters,
      [NoFilters EXCEPT !.q = Some(<<"l","e">>)],
      [NoFilters EXCEPT !.first_name = Some(<<"a">>)],
      [NoFilters EXCEPT !.q = Some(<<"l","e">>), !.last_name = Some(<<"2">>)] }

\* limit: int = Query(default=50, ge=1, le=200)
PageLimits == {1, 2, 3, 50, 200}

\* offset: int = Query(default=0, ge=0)
PageOffsets == 0..MaxOffset

\* OFFSET n: the first n rows of the result are skipped.
sql_offset(rows, n) ==
    IF n >= Len(rows) THEN <<>> ELSE SubSeq(rows, n + 1, Len(rows))

\* LIMIT n: at most the first n rows are returned.
sql_limit(rows, n) ==
    IF Len(rows) <= n THEN rows ELSE SubSeq(rows, 1, n)

\* LIMIT applied before OFFSET.
paginate_limit_first(rows, offset, limit) ==
    sql_offset(sql_limit(rows, limit), offset)

\* stmt.offset(offset).limit(limit), line 150.
paginate(rows, offset, limit) == sql_limit(sql_offset(rows, offset), limit)

\* db.execute(stmt).scalars().all(), lines 125-152: the rows of the table in
\* rowid order that satisfy the WHERE clause, paginated.
search_users(rows, filters, limit, offset) ==
    LET matching == SelectSeq(rows, LAMBDA r : search_users_where(r, filters))
        page == paginate(matching, offset, limit)
    IN  [i \in 1..Len(page) |-> UserOut(page[i])]

InitPage ==
    /\ store \in PageTables
    /\ pc = [p \in Procs |-> "idle"]
    /\ req = [p \in Procs |-> NoReq]
    /\ loc = [p \in Procs |-> NoLoc]
    /\ outcome = [p \in Procs |-> "none"]
    /\ ret = [p \in Procs |-> NoRet]
    /\ dirty = [p \in Procs |-> FALSE]
    /\ nRequests = 0
    /\ \E filters \in PageFilters, limit \in PageLimits, offset \in PageOffsets :
          fn = [op |-> "page", filters |-> filters, limit |-> limit,
                offset |-> offset, done |-> FALSE, users |-> <<>>]

\* GET /users answered from the table.
search_users_run ==
    /\ fn.op = "page"
    /\ ~fn.done
    /\ fn' = [fn EXCEPT !.done = TRUE,
                        !.users = search_users(store, fn.filters, fn.limit, fn.offset)]
    /\ UNCHANGED <<store, pc, req, loc, outcome, ret, dirty, nRequests>>

NextPage == search_users_run

SpecPage == InitPage /\ [][NextPage]_vars

---------------------------------------------------------------------------
(* Properties of the store under concurrent create and delete requests.    *)

Usernames(rows) == {r.username : r \in Rows(rows)}

\* An email as the uniqueness claims compare it: without surrounding
\* whitespace and without regard to letter case.
EmailKey(e) == lower(strip(e))

EmailKeys(rows) == {EmailKey(r.email) : r \in Rows(rows)}

InFlight(p) == pc[p] \in {"probe", "insert"}

ALee == <<"a","l","e","e">>

\* C1: in every reachable state no two persisted records have the same
\* handle, whatever the interleaving of the probes, inserts and deletes of
\* concurrent requests.
HandlesUnique ==
    \A i, j \in 1..Len(store) :
        i # j => store[i].username # store[j].username

\* C1: a worker is about to insert a handle that another request persisted
\* after this worker's probe found it free.
HandlesUniqueWitness ==
    \E p \in Procs :
        /\ pc[p] = "insert"
        /\ loc[p].username \in Usernames(store)
        /\ Len(store) >= 2

\* C2: in every reachable state at most one persisted record exists per
\* email value compared case-insensitively and without surrounding whitespace.
EmailsUnique ==
    \A i, j \in 1..Len(store) :
        i # j => EmailKey(store[i].email) # EmailKey(store[j].email)

\* C2: a worker is about to insert an email that differs from a persisted
\* one only in letter case and surrounding whitespace.
EmailsUniqueWitness ==
    \E p \in Procs :
        /\ pc[p] = "insert"
        /\ EmailKey(req[p].payload.email) \in EmailKeys(store)
        /\ \A r \in Rows(store) : r.email # req[p].payload.email

\* C3: the insert of a create request whose email equals a persisted one up
\* to letter case and surrounding whitespace ends with Conflict, whatever the
\* other fields, and leaves the table as it was.
DuplicateEmailConflicts ==
    [][ \A p \in Procs :
          ( /\ create_user_commit(p)
            /\ EmailKey(req[p].payload.email) \in EmailKeys(store) )
          => ( /\ outcome'[p] = "Conflict"
               /\ pc'[p] = "idle"
               /\ store' = store ) ]_vars

\* C3: a request with the email " ANN@X " and other names ended with
\* Conflict while the record with the email "ann@x" is persisted.
DuplicateEmailConflictsWitness ==
    \E p \in Procs :
        /\ outcome[p] = "Conflict"
        /\ req[p].kind = "create"
        /\ req[p].payload.email = <<" ","A","N","N","@","X"," ">>
        /\ \E r \in Rows(store) :
              r.email = <<"a","n","n","@","x">> /\ r.first_name = Ann

\* C4: the insert of a create request whose email duplicates neither a
\* persisted record's nor a concurrently submitted one's never ends with
\* Conflict: it persists a record.
HandleCollisionsInvisible ==
    [][ \A p \in Procs :
          ( /\ create_user_commit(p)
            /\ EmailKey(req[p].payload.email) \notin EmailKeys(store)
            /\ \A q \in Procs \ {p} :
                  InFlight(q) =>
                      EmailKey(req[q].payload.email) # EmailKey(req[p].payload.email) )
          => ( /\ outcome'[p] # "Conflict"
               /\ Len(store') = Len(store) + 1 ) ]_vars

\* The k-th candidate of the probing sequence: base, base2, base3, ...
CandidateAt(base, k) == IF k = 1 THEN base ELSE base \o str(k)

\* C5: the probes go through base, base2, base3, ... in that order (the
\* candidate in hand is the (suffix-1)-th of the sequence), a taken candidate
\* is followed by the next one and the first free one is returned; with no
\* other request changing the table meanwhile, the handle returned is the
\* first of the sequence that no persisted record has.
ProbesInOrder ==
    /\ [] \A p \in Procs :
          /\ pc[p] = "probe" =>
                /\ loc[p].suffix >= 2
                /\ loc[p].candidate = CandidateAt(loc[p].base, loc[p].suffix - 1)
          /\ (pc[p] = "insert" /\ ~dirty[p]) =>
                /\ loc[p].username = CandidateAt(loc[p].base, loc[p].suffix - 1)
                /\ loc[p].username \notin Usernames(store)
                /\ \A k \in 1..(loc[p].suffix - 2) :
                      CandidateAt(loc[p].base, k) \in Usernames(store)
    /\ [][ \A p \in Procs :
             generate_unique_username_probe(p) =>
                IF loc[p].candidate \in Usernames(store)
                THEN /\ pc'[p] = "probe"
                     /\ loc'[p].candidate = CandidateAt(loc[p].base, loc[p].suffix)
                ELSE /\ pc'[p] = "insert"
                     /\ loc'[p].username = loc[p].candidate ]_vars

\* C5: with alee and alee2 persisted, an undisturbed request with the base
\* alee has probed alee, alee2 and alee3 and is returned alee3.
ProbesInOrderWitness ==
    \E p \in Procs :
        /\ pc[p] = "insert"
        /\ ~dirty[p]
        /\ loc[p].base = ALee
        /\ loc[p].username = ALee \o <<"3">>
        /\ Len(store) = 2
        /\ store[1].username = ALee
        /\ store[2].username = ALee \o <<"2">>

\* C6: the handle of every persisted record is a non-empty string of
\* characters of [a-z0-9].
HandlesAlnum ==
    \A r \in Rows(store) :
        /\ r.username # <<>>
        /\ \A i \in 1..Len(r.username) :
              r.username[i] \in Range(LowerLetters) \cup Range(DigitChars)

\* C6: a record whose names hold no ASCII letter or digit is persisted with
\* the handle "user".
HandlesAlnumWitness ==
    \E r \in Rows(store) :
        /\ r.first_name = <<"?">>
        /\ r.last_name = <<"E_ACUTE">>
        /\ r.username = <<"u","s","e","r">>

\* The derivation as the specification words it: the first character of
\* firstName and all of lastName, lowercased, the characters of [a-z0-9]
\* kept, and "user" when none is left.
ReferenceBase(first_name, last_name) ==
    LET joined == <<first_name[1]>> \o last_name
        kept   == SelectSeq(joined,
                      LAMBDA c : LowerChar(c) \in Range(LowerLetters) \cup Range(DigitChars))
        folded == [i \in 1..Len(kept) |-> LowerChar(kept[i])]
    IN  IF folded = <<>> THEN <<"u","s","e","r">> ELSE folded

\* C7: for every pair of names the base generate_unique_username computes
\* is the reference derivation of the two names.
BaseIsReference ==
    (fn.op = "derive" /\ fn.done) =>
        fn.base = ReferenceBase(fn.first_name, fn.last_name)

\* C7: the base of (" L", "?2") was computed: the first character is the
\* space, the second character of firstName is not used.
BaseIsReferenceWitness ==
    /\ fn.op = "derive"
    /\ fn.done
    /\ fn.first_name = <<" ","L">>
    /\ fn.last_name = <<"?","2">>
    /\ fn.base = <<"2">>

\* C8: delete_user on a handle no persisted record has ends with NotFound
\* and leaves the table as it was; a delete that no other request disturbed
\* succeeds and leaves no record with the handle, so that deleting the same
\* handle again gives NotFound.
DeleteUnknownNotFound ==
    [][ \A p \in Procs :
          /\ \A h \in HandleInputs :
                (delete_user_select(p, h) /\ h \notin Usernames(store))
                => ( /\ outcome'[p] = "NotFound"
                     /\ pc'[p] = "idle"
                     /\ store' = store )
          /\ (delete_user_commit(p) /\ ~dirty[p])
                => ( /\ outcome'[p] = "Deleted"
                     /\ Len(store') = Len(store) - 1
                     /\ req[p].username \notin Usernames(store') ) ]_vars

\* C8: the one record ever created, alee, is gone and the worker that
\* deleted it has asked to delete alee once more and got NotFound.
DeleteUnknownNotFoundWitness ==
    \E p, q \in Procs :
        /\ p # q
        /\ outcome[q] = "Created"
        /\ ret[q].username = ALee
        /\ nRequests = 3
        /\ store = <<>>
        /\ req[p] = [kind |-> "delete", username |-> ALee]
        /\ outcome[p] = "NotFound"

\* The record a create request is to persist and to return.
ExpectedRecord(payload, username) ==
    [ kind |-> "user",
      first_name |-> strip(payload.first_name),
      last_name  |-> strip(payload.last_name),
      birth_date |-> payload.birth_date,
      email      |-> EmailKey(payload.email),
      phone      |-> strip(payload.phone),
      username   |-> username ]

\* The insert step alone: it appends exactly one row, with an id no
\* row has, the trimmed fields, the normalized email and the handle the
\* resolver returned, and changes no other row.
InsertAddsOneRecord ==
    [][ \A p \in Procs :
          (create_user_commit(p) /\ pc'[p] = "refresh")
          => ( /\ Len(store') = Len(store) + 1
               /\ SubSeq(store', 1, Len(store)) = store
               /\ store'[Len(store')].id \notin {r.id : r \in Rows(store)}
               /\ UserOut(store'[Len(store')]) =
                      ExpectedRecord(req[p].payload, loc[p].username) ) ]_vars

\* C9: every create request that ends successfully has added exactly one
\* record, with a fresh id, the trimmed fields, the normalized email and the
\* handle returned to the caller, and has left the other records unchanged.
CreateAddsReturnedRecord ==
    [][ \A p \in Procs :
          /\ (create_user_commit(p) /\ pc'[p] = "refresh")
             => ( /\ Len(store') = Len(store) + 1
                  /\ SubSeq(store', 1, Len(store)) = store
                  /\ store'[Len(store')].id \notin {r.id : r \in Rows(store)}
                  /\ UserOut(store'[Len(store')]) =
                         ExpectedRecord(req[p].payload, loc[p].username) )
          /\ (create_user_refresh(p) /\ outcome'[p] = "Created")
             => ( /\ store' = store
                  /\ ret'[p] = ExpectedRecord(req[p].payload, loc[p].username) ) ]_vars

---------------------------------------------------------------------------
(* The predicate of search_users against the specification's wording.      *)

\* text occurs in s as a substring, letter case aside.
ContainsIgnoringCase(s, text) ==
    \E i \in 0..(Len(s) - Len(text)) :
        lower(SubSeq(s, i + 1, i + Len(text))) = lower(text)

\* C10: the predicate matches a record if and only if q is absent or one of
\* the five fields contains q, and each present per-field filter's text is
\* contained in its field, as case-insensitive substrings.
WhereIsSubstringMatch ==
    (fn.op = "search" /\ fn.done) =>
        LET u == fn.user
            f == fn.filters
        IN  fn.matched <=>
              /\ f.q.present =>
                    \/ ContainsIgnoringCase(u.first_name, f.q.text)
                    \/ ContainsIgnoringCase(u.last_name, f.q.text)
                    \/ ContainsIgnoringCase(u.email, f.q.text)
                    \/ ContainsIgnoringCase(u.phone, f.q.text)
                    \/ ContainsIgnoringCase(u.username, f.q.text)
              /\ f.first_name.present =>
                    ContainsIgnoringCase(u.first_name, f.first_name.text)
              /\ f.last_name.present =>
                    ContainsIgnoringCase(u.last_name, f.last_name.text)
              /\ f.email.present => ContainsIgnoringCase(u.email, f.email.text)
              /\ f.phone.present => ContainsIgnoringCase(u.phone, f.phone.text)
              /\ f.username.present =>
                    ContainsIgnoringCase(u.username, f.username.text)

---------------------------------------------------------------------------
(* Pagination of search_users.                                             *)

\* The rows of the table, in stored order, that the WHERE clause accepts.
MatchingInOrder(rows, filters) ==
    SelectSeq(rows, LAMBDA r : search_users_where(r, filters))

\* C11: search_users returns exactly the matching records at the 0-based
\* positions offset .. offset+limit-1 of the matching records in stored
\* order, so at most limit of them; with no filter every record matches.
PageIsSlice ==
    (fn.op = "page" /\ fn.done) =>
        LET M == MatchingInOrder(store, fn.filters)
            n == IF Len(M) - fn.offset < 0 THEN 0
                 ELSE IF Len(M) - fn.offset < fn.limit THEN Len(M) - fn.offset
                 ELSE fn.limit
        IN  /\ Len(fn.users) = n
            /\ Len(fn.users) <= fn.limit
            /\ \A i \in 1..n : fn.users[i] = UserOut(M[fn.offset + i])
            /\ fn.filters = NoFilters => M = store

\* C11: limit=1, offset=1 over three records, all matching, has returned
\* exactly the second one.
PageIsSliceWitness ==
    /\ fn.op = "page"
    /\ fn.done
    /\ fn.filters = NoFilters
    /\ fn.limit = 1
    /\ fn.offset = 1
    /\ Len(store) = 3
    /\ fn.users = <<UserOut(store[2])>>


\* C12: a create request whose insert is rejected because the handle it
\* carries was taken by another registration since its probe goes back to the
\* probing loop (a fresh probe) instead of reporting Conflict.
RejectedInsertReprobes ==
    [][ \A p \in Procs :
          ( /\ create_user_commit(p)
            /\ loc[p].username \in Usernames(store)
            /\ EmailKey(req[p].payload.email) \notin EmailKeys(store) )
          => ( /\ pc'[p] = "probe"
               /\ outcome'[p] # "Conflict" ) ]_vars


\* C13: while no other request changes the table, a request in the probing
\* loop has met at most as many taken candidates as the table has records,
\* and it leaves the loop with a handle after at most that many probes plus
\* one; a turn of the loop is always possible, ends in the next turn or in
\* the handle, and never in a failure of the request, whatever the suffix.
ProbingTerminates ==
    /\ [] \A p \in Procs :
            /\ (pc[p] = "probe" /\ ~dirty[p]) => loc[p].suffix - 2 <= Len(store)
            /\ (pc[p] = "insert" /\ ~dirty[p]) =>
                   /\ loc[p].suffix - 1 <= Len(store) + 1
                   /\ loc[p].username \notin Usernames(store)
            /\ pc[p] = "probe" => ENABLED generate_unique_username_probe(p)
    /\ [][ \A p \in Procs :
             generate_unique_username_probe(p) =>
                 /\ outcome'[p] = outcome[p]
                 /\ pc'[p] \in {"probe", "insert"}
                 /\ pc'[p] = "probe" =>
                        /\ loc'[p].suffix = loc[p].suffix + 1
                        /\ loc[p].candidate \in Usernames(store)
                 /\ pc'[p] = "insert" => loc'[p].username = loc[p].candidate ]_vars

\* A request left the loop after three probes on a table of two records.
ProbingTerminatesWitness ==
    \E p \in Procs :
        /\ pc[p] = "insert"
        /\ ~dirty[p]
        /\ Len(store) = 2
        /\ loc[p].suffix - 1 = Len(store) + 1


\* C14: a delete of h that no other request interfered with removes the
\* record (one row less, no row with handle h left); get_user(h) answers
\* NotFound exactly when no row has handle h, so it does after the delete;
\* and the probing loop takes a candidate exactly when no row has it, so a
\* create whose probes reach h is given h and, unless its insert is refused,
\* persists its record under h.
HardDelete ==
    /\ [][ \A p \in Procs :
             (delete_user_commit(p) /\ ~dirty[p]) =>
                 /\ outcome'[p] = "Deleted"
                 /\ Len(store') = Len(store) - 1
                 /\ req[p].username \notin Usernames(store') ]_vars
    /\ [][ \A p \in Procs : \A h \in HandleInputs :
             get_user(p, h) =>
                 /\ store' = store
                 /\ (outcome'[p] = "NotFound") <=> (h \notin Usernames(store))
                 /\ h \notin Usernames(store) => ret'[p] = NotFound404 ]_vars
    /\ [][ \A p \in Procs :
             generate_unique_username_probe(p) =>
                 ( (loc[p].candidate \notin Usernames(store))
                     <=> (pc'[p] = "insert" /\ loc'[p].username = loc[p].candidate) ) ]_vars
    /\ [][ \A p \in Procs :
             create_user_commit(p) =>
                 /\ (loc[p].username \notin Usernames(store)
                       /\ EmailKey(req[p].payload.email) \notin EmailKeys(store))
                     => outcome'[p] # "Conflict"
                 /\ outcome'[p] # "Conflict" =>
                       /\ Len(store') = Len(store) + 1
                       /\ store'[Len(store')].username = loc[p].username ]_vars

\* alee and alee2 were persisted, a delete of alee2 succeeded, and the next
\* create with base alee probed alee (taken) and was given alee2 again.
HardDeleteWitness ==
    \E p, q \in Procs :
        /\ req[p].kind = "delete" /\ req[p].username = ALee \o <<"2">>
        /\ outcome[p] = "Deleted"
        /\ pc[q] = "insert" /\ ~dirty[q]
        /\ loc[q].base = ALee
        /\ loc[q].username = ALee \o <<"2">>
        /\ ALee \in Usernames(store)


\* C15: the insert of a create request is refused exactly when a persisted
\* record has the request's handle or its email; whichever of the two it is,
\* the caller gets the same response (409, "Email gia esistente"), the
\* request ends there and the table is left as it was.
SingleConflictOutcome ==
    /\ [][ \A p \in Procs :
             create_user_commit(p) =>
                 LET handleTaken == loc[p].username \in Usernames(store)
                     emailTaken  == EmailKey(req[p].payload.email) \in EmailKeys(store)
                 IN  /\ (handleTaken \/ emailTaken) <=> (outcome'[p] = "Conflict")
                     /\ (handleTaken \/ emailTaken) =>
                            /\ ret'[p] = Conflict409
                            /\ store' = store
                            /\ pc'[p] = "idle" ]_vars
    /\ [] \A p \in Procs :
            outcome[p] = "Conflict" =>
                /\ ret[p] = Conflict409
                /\ pc[p] = "idle"

\* A request whose email no record has lost the race for its handle and got
\* the 409 of a duplicate email.
SingleConflictOutcomeWitness ==
    \E p \in Procs :
        /\ outcome[p] = "Conflict"
        /\ ret[p] = Conflict409
        /\ nRequests = 2
        /\ EmailKey(req[p].payload.email) \notin EmailKeys(store)
        /\ Len(store) = 1


\* C16: the handle a request leaves the probing loop with, the table not
\* having been changed by another request during its probes, is a function
\* of the request's names and of the rows of the table (the first candidate
\* of the names' base that no row has), whatever the worker handled before;
\* two requests with the same names probing the same table hold the same
\* handle.
HandleFromNamesAndStore ==
    /\ \A p \in Procs :
          (pc[p] = "insert" /\ ~dirty[p]) =>
              LET base == derive_base(req[p].payload.first_name,
                                      req[p].payload.last_name)
              IN  loc[p].username =
                      first_free_candidate(store, base, base, initial_suffix)
    /\ \A p, q \in Procs :
          ( /\ pc[p] = "insert" /\ pc[q] = "insert"
            /\ ~dirty[p] /\ ~dirty[q]
            /\ req[p].payload.first_name = req[q].payload.first_name
            /\ req[p].payload.last_name = req[q].payload.last_name )
          => loc[p].username = loc[q].username

\* With alee persisted, two workers with the same payload hold the same
\* handle, alee2, on the same table.
HandleFromNamesAndStoreWitness ==
    \E p, q \in Procs :
        /\ p # q
        /\ pc[p] = "insert" /\ pc[q] = "insert"
        /\ ~dirty[p] /\ ~dirty[q]
        /\ req[p].payload = req[q].payload
        /\ Usernames(store) = {ALee}
        /\ loc[p].username = ALee \o <<"2">>
        /\ loc[q].username = ALee \o <<"2">>


\* C17: no step changes a field of a persisted record: across every step a
\* row of the table is either still there with the same id, handle and
\* fields, or it is gone, and it goes only in the commit of a delete
\* request; every other step leaves the rows it found in place and in order.
RecordsImmutable ==
    [][ /\ \A r \in Rows(store) :
             \/ r \in Rows(store')
             \/ /\ \A r2 \in Rows(store') : r2.id # r.id /\ r2.username # r.username
                /\ \E p \in Procs : delete_user_commit(p) /\ loc[p].id = r.id
        /\ (\A p \in Procs : ~delete_user_commit(p)) =>
               /\ Len(store') >= Len(store)
               /\ SubSeq(store', 1, Len(store)) = store ]_vars

\* The record alee, persisted first, is unchanged after a second record was
\* created, fetched and deleted.
RecordsImmutableWitness ==
    /\ Len(store) = 1
    /\ store[1] = with_id(ExpectedRecord(CHOOSE x \in Payloads : x.first_name = Ann, ALee), 1)
    /\ nRequests = 4
    /\ \E p, q \in Procs :
          /\ outcome[p] = "Deleted"
          /\ req[p].username = ALee \o <<"2">>
          /\ req[q].kind = "get"
          /\ outcome[q] = "Found"


\* What get_user(h) answers in the current state of the table.
get_user_response(rows, h) ==
    IF select_by_username(rows, h) = {}
    THEN NotFound404
    ELSE UserOut(CHOOSE r \in select_by_username(rows, h) : TRUE)

\* C18: the response of a successful create is what get_user answers for the
\* handle in it, from the step that returns it and across every later step
\* that is not the commit of a delete of that handle; a get_user step leaves
\* the table as it is and answers from it.
CreateGetRoundTrip ==
    [][ /\ \A p \in Procs :
             (create_user_refresh(p) /\ outcome'[p] = "Created") =>
                 get_user_response(store', ret'[p].username) = ret'[p]
        /\ \A p \in Procs :
             ( /\ outcome[p] = "Created" /\ pc[p] = "idle"
               /\ get_user_response(store, ret[p].username) = ret[p]
               /\ ~ \E q \in Procs :
                      /\ delete_user_commit(q)
                      /\ req[q].username = ret[p].username )
             => get_user_response(store', ret[p].username) = ret[p]
        /\ \A p \in Procs : \A h \in HandleInputs :
             get_user(p, h) =>
                 /\ store' = store
                 /\ ret'[p] = get_user_response(store, h) ]_vars


\* C19: the handle of every persisted record is the base derived from the
\* first_name and last_name stored in that record, bare or followed by a
\* decimal suffix from 2 on.
HandleMatchesStoredNames ==
    \A r \in Rows(store) :
        LET base == derive_base(r.first_name, r.last_name)
        IN  \/ r.username = base
            \/ \E k \in 2..(Len(store) + 1) : r.username = base \o str(k)

=============================================================================
